---- MODULE Spec2Model ----
(***************************************************************************)
(* CareCoordinatorLLM.chat (backend/llm.py): the ReAct loop that calls the *)
(* model, appends the assistant message, dispatches the requested tool     *)
(* calls one by one and appends their results, until the model answers     *)
(* without tool calls, the inference call raises, or the iteration budget  *)
(* is used up.                                                             *)
(***************************************************************************)
EXTENDS Integers, Sequences, FiniteSets, TLC

(***************************************************************************)
(* Bounds of the model.                                                    *)
(***************************************************************************)
\* largest max_iterations a caller passes
MaxIter == 2
\* most tool calls in one model response
MaxCalls == 2
\* most tool calls the model client mints in one chat invocation
MaxTotalCalls == 2
\* most calls of get_llm one thread makes
MaxGetLlmCalls == 2

(***************************************************************************)
(* Python values.                                                          *)
(***************************************************************************)
None == [type |-> "NoneType"]
Str(s) == [type |-> "str", value |-> s]
Dict(items) == [type |-> "dict", items |-> items]
List(items) == [type |-> "list", items |-> items]
Bool(b) == [type |-> "bool", value |-> b]
\* the local name `returned` before any return statement ran
NotReturned == [type |-> "pending"]

\* bool(x) for the values the loop tests: None, "" and [] are falsy
Truthy(v) ==
    CASE v.type = "NoneType" -> FALSE
      [] v.type = "str" -> v.value # ""
      [] v.type = "list" -> Len(v.items) > 0
      [] OTHER -> TRUE

(***************************************************************************)
(* Fixed strings of llm.py.                                                *)
(***************************************************************************)
system_prompt == "You are a care coordinator assistant."
\* the budget running out reported as an error
EXHAUSTED_MESSAGE_AsError ==
    "I apologize, but I encountered an error: max iterations reached"
\* line 236: the fixed apology returned when the budget is used up
EXHAUSTED_MESSAGE ==
    "I apologize, but I'm having trouble completing this request. Could you try rephrasing?"
\* an apology that drops the error's text
ErrorApology_NoDetail(e) == "I apologize, but I encountered an error."

\* line 232
ErrorApology(e) == "I apologize, but I encountered an error: " \o e
UnknownToolMessage(tool_name) == "Unknown tool: " \o tool_name

(***************************************************************************)
(* The tool registry: the names and parameter contracts of the catalog.    *)
(***************************************************************************)
TOOLS ==
    { "search_patient", "list_providers", "check_insurance", "get_self_pay_rate",
      "check_appointment_history", "list_available_slots", "create_appointment" }

ToolParams(tool_name) ==
    CASE tool_name = "search_patient" -> {"name", "dob"}
      [] tool_name = "list_providers" -> {"specialty", "city"}
      [] tool_name = "check_insurance" -> {"insurance_name"}
      [] tool_name = "get_self_pay_rate" -> {"specialty"}
      [] tool_name = "check_appointment_history" -> {"patient_id", "provider_id"}
      [] tool_name = "list_available_slots" ->
            {"provider_id", "department_name", "start_date", "end_date", "duration_minutes"}
      [] tool_name = "create_appointment" ->
            {"patient_id", "provider_id", "department_name", "datetime_str", "appointment_type"}
      [] OTHER -> {}

ToolRequired(tool_name) ==
    IF tool_name = "list_providers" THEN {} ELSE ToolParams(tool_name)

\* lines 26-137: the order of the schemas in the list _get_tool_schemas returns
ToolNames ==
    << "search_patient", "list_providers", "check_insurance", "get_self_pay_rate",
       "check_appointment_history", "list_available_slots", "create_appointment" >>

\* lines 26-137: the catalog __init__ stores in self.tool_schemas
ToolSchemas ==
    [i \in 1..Len(ToolNames) |->
        [type |-> "function",
         function |-> [name |-> ToolNames[i],
                       properties |-> ToolParams(ToolNames[i]),
                       required |-> ToolRequired(ToolNames[i])]]]

\* a catalog that is only sent with the first inference call of a session
RequestTools_FirstRoundOnly(schemas, i) == IF i = 0 THEN schemas ELSE <<>>

\* line 167: the tools= argument of the inference call of iteration i
RequestTools(schemas, i) == schemas

\* line 168: the tool_choice= argument of every inference call
ToolChoice == "auto"

(***************************************************************************)
(* json.loads on the raw argument payloads the model client may send.      *)
(***************************************************************************)
ARGS_PATIENT == "{\"name\": \"John Doe\", \"dob\": \"01/01/1975\"}"
ARGS_EMPTY == "{}"
ARGS_LIST == "[1]"
ARGS_MALFORMED == "{\"name\": "
\* stands for "[" repeated past the interpreter's recursion limit
ARGS_DEEP == "[[[[[[[[...(100000 levels)"

Payloads == {ARGS_PATIENT, ARGS_EMPTY, ARGS_LIST, ARGS_MALFORMED, ARGS_DEEP}

JsonLoads(raw) ==
    CASE raw = ARGS_PATIENT ->
            [raised |-> "none", value |-> Dict([name |-> "John Doe", dob |-> "01/01/1975"])]
      [] raw = ARGS_EMPTY ->
            [raised |-> "none", value |-> Dict(<<>>)]
      [] raw = ARGS_LIST ->
            [raised |-> "none", value |-> List(<<1>>)]
      [] raw = ARGS_DEEP ->
            [raised |-> "RecursionError",
             message |-> "maximum recursion depth exceeded while decoding a JSON array from a unicode string"]
      [] OTHER ->
            [raised |-> "JSONDecodeError",
             message |-> "Expecting value: line 1 column 10 (char 9)"]

(***************************************************************************)
(* Calling a handler with the parsed arguments as keyword arguments.       *)
(***************************************************************************)
\* binding that lets arguments that are no mapping through to the handler
BindError_NonMappingBinds(tool_name, arguments) ==
    IF arguments.type # "dict"
    THEN "ok"
    ELSE IF ~(DOMAIN arguments.items \subseteq ToolParams(tool_name))
    THEN tool_name \o "() got an unexpected keyword argument"
    ELSE IF ~(ToolRequired(tool_name) \subseteq DOMAIN arguments.items)
    THEN tool_name \o "() missing required positional arguments"
    ELSE "ok"

\* "ok" when the call binds and the handler's body runs; otherwise the
\* TypeError the interpreter raises before the body is entered
BindError(tool_name, arguments) ==
    IF arguments.type # "dict"
    THEN "argument after ** must be a mapping, not " \o arguments.type
    ELSE IF ~(DOMAIN arguments.items \subseteq ToolParams(tool_name))
    THEN tool_name \o "() got an unexpected keyword argument"
    ELSE IF ~(ToolRequired(tool_name) \subseteq DOMAIN arguments.items)
    THEN tool_name \o "() missing required positional arguments"
    ELSE "ok"

\* what a handler's body may do once it runs
HandlerOutcomes == {"returns", "returns_error", "raises", "returns_datetime"}

HANDLER_EXCEPTION == "Database connection failed"

\* the handler's result, as the Python value bound to `result`
HandlerResult(tool_name, outcome) ==
    CASE outcome = "returns" -> Dict([tool |-> Str(tool_name), found |-> Bool(TRUE)])
      [] outcome = "returns_error" -> Dict([error |-> Str("Patient not found")])
      [] outcome = "returns_datetime" -> Dict([appointment_date |-> [type |-> "datetime"]])

ErrorResult(message) == Dict([error |-> Str(message)])

(***************************************************************************)
(* json.dumps on the results the loop serialises.                          *)
(***************************************************************************)
JsonSerializable(result) ==
    \A k \in DOMAIN result.items : result.items[k].type \in {"str", "bool"}

JsonValue(v) ==
    IF v.type = "bool"
    THEN (IF v.value THEN "true" ELSE "false")
    ELSE "\"" \o v.value \o "\""

JsonDumps(result) ==
    IF ~JsonSerializable(result)
    THEN [raised |-> "TypeError", message |-> "Object of type datetime is not JSON serializable"]
    ELSE [raised |-> "none",
          value |->
            CASE DOMAIN result.items = {"error"} ->
                    "{\"error\": " \o JsonValue(result.items.error) \o "}"
              [] DOMAIN result.items = {"tool", "found"} ->
                    "{\"tool\": " \o JsonValue(result.items.tool)
                        \o ", \"found\": " \o JsonValue(result.items.found) \o "}"]

(***************************************************************************)
(* Messages of the transcript.                                             *)
(***************************************************************************)
SystemMessage == [role |-> "system", content |-> Str(system_prompt)]
UserMessage == [role |-> "user", content |-> Str("Is Aetna accepted?")]
CallerSystemMessage == [role |-> "system", content |-> Str("You are a test assistant.")]

\* the message lists a caller passes to chat; the last one is structurally
\* invalid: its first entry is a str, not a dict
Histories ==
    { <<>>,
      <<UserMessage>>,
      <<CallerSystemMessage, UserMessage>>,
      <<CallerSystemMessage, CallerSystemMessage, UserMessage>>,
      <<Str("hello")>> }

\* a dict entry; the tagged values (str, ...) have no .get
IsMapping(m) == "type" \notin DOMAIN m

\* line 153: messages[0].get raises AttributeError on an entry that is no dict
PrimeRaises(msgs) == Len(msgs) > 0 /\ ~IsMapping(msgs[1])

\* a test that prepends the system prompt whatever the list starts with
NeedsSystemPrompt_Always(msgs) == TRUE

\* line 153: the test that decides whether the system prompt is prepended
NeedsSystemPrompt(msgs) == Len(msgs) = 0 \/ msgs[1].role # "system"

\* priming that prepends the system prompt unconditionally
Primed_AlwaysPrepends(msgs) == <<SystemMessage>> \o msgs

\* lines 153-154: the list the local name `messages` is bound to after priming
Primed(msgs) == IF NeedsSystemPrompt(msgs) THEN <<SystemMessage>> \o msgs ELSE msgs

\* `conversation = messages`: the caller's list itself whenever priming kept it
ConversationIsCallersList_NoCopy(msgs) == ~NeedsSystemPrompt(msgs)

\* line 156: messages.copy() is a new list object, so `conversation` never
\* names the list object the caller passed
ConversationIsCallersList(msgs) == FALSE

\* the primed `messages` passed instead of the growing `conversation`
InferenceInput_PrimedMessages(conv, msgs) == msgs

\* line 166: the messages= argument of the inference call
InferenceInput(conv, msgs) == conv

\* an assistant message that always carries a tool_calls field, empty when
\* the response brought no tool call
AssistantMessage_AlwaysToolCalls(msg) ==
    [role |-> "assistant", content |-> msg.content,
     tool_calls |->
        IF Truthy(msg.tool_calls)
        THEN [i \in 1..Len(msg.tool_calls.items) |->
                [id |-> msg.tool_calls.items[i].id,
                 type |-> "function",
                 function |->
                    [name |-> msg.tool_calls.items[i].function.name,
                     arguments |-> msg.tool_calls.items[i].function.arguments]]]
        ELSE <<>>]

\* lines 175-190: the assistant message built from the model's response
AssistantMessage(msg) ==
    IF Truthy(msg.tool_calls)
    THEN [role |-> "assistant", content |-> msg.content,
          tool_calls |->
            [i \in 1..Len(msg.tool_calls.items) |->
                [id |-> msg.tool_calls.items[i].id,
                 type |-> "function",
                 function |->
                    [name |-> msg.tool_calls.items[i].function.name,
                     arguments |-> msg.tool_calls.items[i].function.arguments]]]]
    ELSE [role |-> "assistant", content |-> msg.content]

\* the legacy function-calling reply, which carries a name and no tool_call_id
ToolMessage_LegacyFunctionRole(tool_call, dumped) ==
    [role |-> "function", name |-> tool_call.function.name, content |-> Str(dumped)]

\* lines 224-228: the tool message appended for a dispatched call
ToolMessage(tool_call, dumped) ==
    [role |-> "tool", tool_call_id |-> tool_call.id, content |-> Str(dumped)]

(***************************************************************************)
(* What the model client may answer.                                       *)
(***************************************************************************)
\* content of a response without tool calls
Contents == {None, Str(""), Str("Aetna is accepted.")}
\* content that accompanies tool calls
ToolContents == {None, Str("Let me check that.")}
ClientErrors == {"Connection error."}

\* the (name, raw arguments) pairs the model requests
ToolCallKinds ==
    { <<"search_patient", ARGS_PATIENT>>,
      <<"search_patient", ARGS_MALFORMED>>,
      <<"search_patient", ARGS_LIST>>,
      <<"list_providers", ARGS_EMPTY>>,
      <<"list_providers", ARGS_MALFORMED>>,
      <<"frobnicate", ARGS_PATIENT>>,
      <<"frobnicate", ARGS_DEEP>> }

\* the tool calls of one response: n calls with ids minted from first_id on
ToolCallLists(n, first_id) ==
    { [i \in 1..n |-> [id |-> first_id + i - 1,
                       function |-> [name |-> f[i][1], arguments |-> f[i][2]]]] :
        f \in [1..n -> ToolCallKinds] }

(***************************************************************************)
(* One tool call of the for loop, lines 200-228.                           *)
(***************************************************************************)
\* lines 204-209: only json.JSONDecodeError is caught, and replaced by {}
ParseArguments(raw) ==
    LET parsed == JsonLoads(raw) IN
    CASE parsed.raised = "none" -> [raised |-> "none", arguments |-> parsed.value]
      [] parsed.raised = "JSONDecodeError" -> [raised |-> "none", arguments |-> Dict(<<>>)]
      [] OTHER -> [raised |-> parsed.raised, message |-> parsed.message]

\* whether the handler's body is entered by the call of line 214
HandlerRuns(tool_name, arguments) ==
    tool_name \in TOOLS /\ BindError(tool_name, arguments) = "ok"

\* lines 212-221: the value bound to `result`
ExecuteTool(tool_name, arguments, outcome) ==
    IF tool_name \in TOOLS
    THEN IF BindError(tool_name, arguments) # "ok"
         THEN ErrorResult(BindError(tool_name, arguments))
         ELSE IF outcome = "raises"
              THEN ErrorResult(HANDLER_EXCEPTION)
              ELSE HandlerResult(tool_name, outcome)
    ELSE ErrorResult(UnknownToolMessage(tool_name))

\* a loop that leaves the round at the first result that carries an error
NextToolIndex_BreakOnError(i, result) ==
    IF "error" \in DOMAIN result.items THEN i + MaxCalls + 1 ELSE i + 1

\* a loop that dispatches a call again when its result carries an error
NextToolIndex_RetryOnError(i, result) ==
    IF "error" \in DOMAIN result.items THEN i ELSE i + 1

\* line 200: the inner for loop moves on to the next tool call
NextToolIndex(i, result) == i + 1

\* a loop without an iteration budget (while True)
InRange_Unbounded(i, n) == TRUE

\* a loop that runs its first iteration before looking at the budget
InRange_AtLeastOnce(i, n) == i = 0 \/ i < n

\* an off-by-one loop bound
InRange_OffByOne(i, n) == i <= n

\* line 158: range(max_iterations) still yields an iteration
InRange(i, n) == i < n

\* a test for None where the code tests for falsy: [] counts as tool calls
NoToolCalls_IsNone(msg) == msg.tool_calls.type = "NoneType"

\* line 195: `if not message.tool_calls`
NoToolCalls(msg) == ~Truthy(msg.tool_calls)

(***************************************************************************)
(* State.                                                                  *)
(***************************************************************************)
VARIABLES
    caller_messages,   \* the list object the caller passed
    max_iterations,    \* the argument max_iterations
    messages,          \* the local name `messages`
    conversation,      \* the local list `conversation`
    iteration,         \* the loop variable of line 158
    message,           \* response.choices[0].message of the current round
    tc,                \* index of the current tool call in message.tool_calls
    pc,                \* control position: prime, loop, tools; after a return DONE,
                       \* FAILED or EXHAUSTED; RAISED when an exception escaped
    returned,          \* the value chat returned
    next_id,           \* the model client's next tool-call id
    inference_calls,   \* number of completions.create calls made
    sent,              \* the `messages=` argument of the latest inference call
    exc,               \* the exception bound to `e` by the outer except clause,
                       \* or the one that escaped chat
    aliased,           \* whether `conversation` is the caller's list object
    self,              \* the CareCoordinatorLLM instance: system_prompt, tool_schemas
    request,           \* tools= and tool_choice= of the last inference call
    dispatch_log       \* per tool call the for loop entered: id, name, raw payload,
                       \* whether the handler's body ran and what it did, the
                       \* arguments passed, the value bound to `result`

\* the state of one chat invocation
chat_vars == << caller_messages, max_iterations, messages, conversation, iteration,
                message, tc, pc, returned, next_id, inference_calls, sent, exc, aliased,
                dispatch_log, self, request >>

VARIABLES
    llm_instance,      \* the module global _llm_instance
    threads,           \* per thread: its position in get_llm and the calls it made
    constructed,       \* how many CareCoordinatorLLM objects were constructed
    handed_out         \* the values get_llm returned so far

\* the state of the process-wide accessor get_llm
singleton_vars == << llm_instance, threads, constructed, handed_out >>

VARIABLES
    frames,            \* per concurrent chat invocation: its local names
    heap               \* the transcript lists, by the owner that holds them

\* the state of the chat invocations that share one instance
session_vars == << frames, heap >>

VARIABLES
    requests,          \* per request of POST /appointments: its position and locals
    conns,             \* every connection get_db_connection opened, with what was
                       \* called on it
    appointments       \* the committed rows of the appointments table

\* the state of the appointment endpoint and the connections it uses
database_vars == << requests, conns, appointments >>

VARIABLES
    app_module,        \* what importing app.py came to
    chat_requests      \* per request of POST /chat: its body and what came back

\* the state of the web application and of the requests to its chat endpoint
endpoint_vars == << app_module, chat_requests >>

vars == << chat_vars, singleton_vars, session_vars, database_vars, endpoint_vars >>

Unbound == [type |-> "unbound"]

\* get_llm has not been called
SingletonIdle ==
    /\ llm_instance = None
    /\ threads = <<>>
    /\ constructed = 0
    /\ handed_out = {}

\* no concurrent invocation is under way
SessionsIdle ==
    /\ frames = <<>>
    /\ heap = <<>>

\* no request for an appointment is under way
DatabaseIdle ==
    /\ requests = <<>>
    /\ conns = <<>>
    /\ appointments = <<>>

\* app.py was not imported and no request was sent to it
EndpointIdle ==
    /\ app_module = "not_imported"
    /\ chat_requests = <<>>

Init ==
    /\ caller_messages \in Histories
    /\ max_iterations \in 0..MaxIter
    /\ messages = caller_messages
    /\ conversation = <<>>
    /\ iteration = 0
    /\ message = Unbound
    /\ tc = 0
    /\ pc = "prime"
    /\ returned = NotReturned
    /\ next_id = 1
    /\ inference_calls = 0
    /\ sent = <<>>
    /\ exc = Unbound
    /\ aliased = FALSE
    /\ dispatch_log = <<>>
    /\ self = [system_prompt |-> system_prompt, tool_schemas |-> ToolSchemas]
    /\ request = Unbound
    /\ SingletonIdle
    /\ SessionsIdle
    /\ DatabaseIdle
    /\ EndpointIdle

\* chat has not been called
ChatIdle ==
    /\ caller_messages = <<>>
    /\ max_iterations = 0
    /\ messages = <<>>
    /\ conversation = <<>>
    /\ iteration = 0
    /\ message = Unbound
    /\ tc = 0
    /\ pc = "idle"
    /\ returned = NotReturned
    /\ next_id = 1
    /\ inference_calls = 0
    /\ sent = <<>>
    /\ exc = Unbound
    /\ aliased = FALSE
    /\ dispatch_log = <<>>
    /\ self = [system_prompt |-> system_prompt, tool_schemas |-> ToolSchemas]
    /\ request = Unbound

\* lines 150-156
Prime ==
    /\ pc = "prime"
    /\ IF PrimeRaises(messages)
       THEN /\ pc' = "RAISED"
            /\ exc' = [where |-> "messages[0].get",
                       message |-> "'str' object has no attribute 'get'"]
            /\ UNCHANGED << messages, conversation, aliased >>
       ELSE /\ messages' = Primed(messages)
            /\ conversation' = Primed(messages)
            /\ aliased' = ConversationIsCallersList(messages)
            /\ pc' = "loop"
            /\ exc' = exc
    /\ UNCHANGED << caller_messages, max_iterations, iteration, message, tc, returned,
                    next_id, inference_calls, sent, dispatch_log >>
    /\ UNCHANGED << self, request >>
    /\ UNCHANGED << singleton_vars, session_vars, database_vars, endpoint_vars >>

\* list.append on `conversation`: the caller's list grows too when both names
\* are bound to the same list object
AppendToConversation(m) ==
    /\ conversation' = Append(conversation, m)
    /\ caller_messages' =
            IF aliased THEN Append(caller_messages, m) ELSE caller_messages

\* lines 230-232: the outer except clause
\* a loop without the outer except clause: the exception leaves chat
ReturnError_Propagates(where, text) ==
    /\ exc' = [where |-> where, message |-> text]
    /\ pc' = "RAISED"
    /\ returned' = returned

ReturnError(where, text) ==
    /\ exc' = [where |-> where, message |-> text]
    /\ pc' = "FAILED"
    /\ returned' = Str(ErrorApology(text))

\* lines 158-197: the inference call returns a response
InferenceReturns ==
    /\ pc = "loop"
    /\ InRange(iteration, max_iterations)
    /\ \E n \in 0..MaxCalls, content \in Contents \cup ToolContents :
         /\ next_id + n - 1 <= MaxTotalCalls
         /\ content \in IF n = 0 THEN Contents ELSE ToolContents
         /\ \E tool_calls \in
                IF n = 0 THEN {None, List(<<>>)}
                ELSE { List(l) : l \in ToolCallLists(n, next_id) } :
              LET msg == [content |-> content, tool_calls |-> tool_calls] IN
              /\ message' = msg
              /\ next_id' = next_id + n
              /\ inference_calls' = inference_calls + 1
              /\ sent' = InferenceInput(conversation, messages)
              /\ AppendToConversation(AssistantMessage(msg))
              /\ IF NoToolCalls(msg)
                 THEN /\ pc' = "DONE"
                      /\ returned' = msg.content
                      /\ tc' = 0
                 ELSE /\ pc' = "tools"
                      /\ returned' = returned
                      /\ tc' = 1
    /\ UNCHANGED << max_iterations, messages, iteration, exc, aliased, dispatch_log >>
    /\ request' = [tools |-> RequestTools(self.tool_schemas, iteration),
                   tool_choice |-> ToolChoice]
    /\ UNCHANGED self
    /\ UNCHANGED << singleton_vars, session_vars, database_vars, endpoint_vars >>

\* lines 161-169, 230-232: the inference call raises
InferenceRaises ==
    /\ pc = "loop"
    /\ InRange(iteration, max_iterations)
    /\ \E e \in ClientErrors :
         /\ inference_calls' = inference_calls + 1
         /\ sent' = InferenceInput(conversation, messages)
         /\ ReturnError("completions.create", e)
    /\ UNCHANGED << caller_messages, max_iterations, messages, conversation, iteration,
                    message, tc, next_id, aliased, dispatch_log >>
    /\ request' = [tools |-> RequestTools(self.tool_schemas, iteration),
                   tool_choice |-> ToolChoice]
    /\ UNCHANGED self
    /\ UNCHANGED << singleton_vars, session_vars, database_vars, endpoint_vars >>

\* lines 234-236: the for loop is over
Exhausted ==
    /\ pc = "loop"
    /\ ~InRange(iteration, max_iterations)
    /\ pc' = "EXHAUSTED"
    /\ returned' = Str(EXHAUSTED_MESSAGE)
    /\ UNCHANGED << caller_messages, max_iterations, messages, conversation, iteration,
                    message, tc, next_id, inference_calls, sent, exc, aliased,
                    dispatch_log >>
    /\ UNCHANGED << self, request >>
    /\ UNCHANGED << singleton_vars, session_vars, database_vars, endpoint_vars >>

\* lines 200-228: one pass of the inner for loop
DispatchTool ==
    /\ pc = "tools"
    /\ tc <= Len(message.tool_calls.items)
    /\ LET tool_call == message.tool_calls.items[tc]
           tool_name == tool_call.function.name
           parsed == ParseArguments(tool_call.function.arguments)
       IN
       IF parsed.raised # "none"
       THEN /\ ReturnError("json.loads", parsed.message)
            /\ dispatch_log' =
                    Append(dispatch_log,
                           [id |-> tool_call.id, name |-> tool_name,
                            raw |-> tool_call.function.arguments, ran |-> FALSE,
                            outcome |-> "none", arguments |-> Unbound,
                            result |-> Unbound])
            /\ UNCHANGED << caller_messages, conversation, iteration, tc >>
       ELSE \E outcome \in
                 IF HandlerRuns(tool_name, parsed.arguments)
                 THEN HandlerOutcomes ELSE {"none"} :
              LET result == ExecuteTool(tool_name, parsed.arguments, outcome)
                  dumped == JsonDumps(result)
              IN
              /\ dispatch_log' =
                    Append(dispatch_log,
                           [id |-> tool_call.id, name |-> tool_name,
                            raw |-> tool_call.function.arguments,
                            ran |-> HandlerRuns(tool_name, parsed.arguments),
                            outcome |-> outcome,
                            arguments |-> parsed.arguments, result |-> result])
              /\ IF dumped.raised # "none"
                 THEN /\ ReturnError("json.dumps", dumped.message)
                      /\ UNCHANGED << caller_messages, conversation, iteration, tc >>
                 ELSE /\ AppendToConversation(ToolMessage(tool_call, dumped.value))
                      /\ UNCHANGED << returned, exc >>
                      /\ IF NextToolIndex(tc, result) <= Len(message.tool_calls.items)
                         THEN /\ tc' = NextToolIndex(tc, result)
                              /\ pc' = "tools"
                              /\ iteration' = iteration
                         ELSE /\ tc' = tc
                              /\ pc' = "loop"
                              /\ iteration' = iteration + 1
    /\ UNCHANGED << max_iterations, messages, message, next_id, inference_calls, sent,
                    aliased >>
    /\ UNCHANGED << self, request >>
    /\ UNCHANGED << singleton_vars, session_vars, database_vars, endpoint_vars >>

Next ==
    \/ Prime
    \/ InferenceReturns
    \/ InferenceRaises
    \/ Exhausted
    \/ DispatchTool

Spec == Init /\ [][Next]_vars

\* chat runs in one thread and blocks on each call, and every inference call
\* and every handler returns or raises: a step that can be taken is taken
FairSpec == Spec /\ WF_vars(Next)

(***************************************************************************)
(* Properties.                                                             *)
(***************************************************************************)
Terminal == {"DONE", "FAILED", "EXHAUSTED"}

\* the response carries no tool call: tool_calls is None or an empty list
ZeroToolCalls(msg) ==
    \/ msg.tool_calls.type = "NoneType"
    \/ msg.tool_calls.type = "list" /\ Len(msg.tool_calls.items) = 0

\* indexes of the assistant messages of transcript t that carry tool calls
ToolRoundsOf(t) ==
    { i \in DOMAIN t : t[i].role = "assistant" /\ "tool_calls" \in DOMAIN t[i] }

\* indexes of the tool-role messages of transcript t that answer call id
ToolResultsFor(t, id) ==
    { j \in DOMAIN t : t[j].role = "tool" /\ t[j].tool_call_id = id }

C1_ReturnsContent ==
    (message # Unbound /\ ZeroToolCalls(message)) =>
        /\ pc = "DONE"
        /\ returned = message.content
        /\ inference_calls = iteration + 1
        /\ conversation = Append(sent, [role |-> "assistant", content |-> message.content])
        /\ Len(dispatch_log) = next_id - 1

C1_NothingAfter ==
    [][pc = "DONE" =>
        /\ pc' = "DONE"
        /\ returned' = returned
        /\ inference_calls' = inference_calls
        /\ dispatch_log' = dispatch_log]_vars

\* C1: in whatever round the model answers without tool calls, chat returns
\* that round's content at once (the round's inference call is the last one,
\* no tool call of that round is dispatched), and nothing happens afterwards.
C1_ZeroToolCallsEndTheSession == []C1_ReturnsContent /\ C1_NothingAfter

\* C1 witness: the answer without tool calls comes in the last permitted
\* round, after a round of tool calls.
C1_Witness ==
    /\ pc = "DONE"
    /\ ZeroToolCalls(message)
    /\ max_iterations >= 2
    /\ inference_calls = max_iterations
    /\ Len(dispatch_log) >= 1

\* C3: the number of inference calls made, and the loop variable, never
\* exceed max_iterations.
C3_IterationBound ==
    /\ inference_calls <= max_iterations
    /\ iteration <= max_iterations

\* C3 witness: the whole budget was used.
C3_Witness ==
    /\ pc = "EXHAUSTED"
    /\ max_iterations >= 2
    /\ inference_calls = max_iterations

\* every tool call carried by an assistant message of transcript t is
\* answered by exactly one tool-role message of t, placed after it
Matched(t) ==
    \A i \in ToolRoundsOf(t) :
        \A k \in DOMAIN t[i].tool_calls :
            /\ Cardinality(ToolResultsFor(t, t[i].tool_calls[k].id)) = 1
            /\ \A j \in ToolResultsFor(t, t[i].tool_calls[k].id) : j > i

\* C4: the transcript handed to any inference call after the first answers
\* every tool call it carries by exactly one tool message with the same id.
C4_ToolCallsAnsweredBeforeNextInference ==
    inference_calls >= 2 => Matched(sent)

\* C4 witness: a second inference call receives a round of two tool calls.
C4_Witness ==
    /\ inference_calls >= 2
    /\ \E i \in ToolRoundsOf(sent) : Len(sent[i].tool_calls) = 2

\* C2 as claimed: when each of the max_iterations rounds brought tool calls,
\* chat made max_iterations inference calls and returned the exhaustion
\* message.
C2_Claim_ExhaustionAfterToolRounds ==
    (pc \in Terminal /\ max_iterations >= 1
        /\ Cardinality(ToolRoundsOf(conversation)) = max_iterations) =>
        /\ inference_calls = max_iterations
        /\ returned = Str("I apologize, but I'm having trouble completing this request. Could you try rephrasing?")

\* C5 as claimed: a call whose payload json.loads rejects as malformed gets
\* an error result and its handler's body never runs.
C5_Claim_MalformedPayloadSkipsHandler ==
    \A i \in DOMAIN dispatch_log :
        JsonLoads(dispatch_log[i].raw).raised = "JSONDecodeError" =>
            /\ ~dispatch_log[i].ran
            /\ dispatch_log[i].result # Unbound
            /\ "error" \in DOMAIN dispatch_log[i].result.items

\* C6 as claimed: chat returns the error apology only when the inference
\* call raised.
C6_Claim_OnlyInferenceFailuresEndTheSession ==
    pc = "FAILED" => exc.where = "completions.create"

\* the tool calls of the round that call id belongs to
RoundOf(id) ==
    LET i == CHOOSE r \in ToolRoundsOf(conversation) :
                \E k \in DOMAIN conversation[r].tool_calls :
                    conversation[r].tool_calls[k].id = id
    IN conversation[i].tool_calls

Dispatched(id) == \E j \in DOMAIN dispatch_log : dispatch_log[j].id = id

\* once chat has returned: the round of call id was dispatched to its end,
\* and the loop went on from it (to a further inference call, or to the end
\* of the budget)
RoundCompleted(id) ==
    pc \in Terminal =>
        /\ \A k \in DOMAIN RoundOf(id) : Dispatched(RoundOf(id)[k].id)
        /\ pc = "FAILED" => exc.where = "completions.create"

\* C7 as claimed: a raising handler gives {error: message} under the call's
\* id, the later calls of the round are dispatched and the loop goes on.
C7_Claim_HandlerErrorIsLocal ==
    \A i \in DOMAIN dispatch_log :
        dispatch_log[i].outcome = "raises" =>
            /\ dispatch_log[i].result = Dict([error |-> Str("Database connection failed")])
            /\ \E j \in ToolResultsFor(conversation, dispatch_log[i].id) :
                    conversation[j].content = Str("{\"error\": \"Database connection failed\"}")
            /\ Cardinality(ToolResultsFor(conversation, dispatch_log[i].id)) = 1
            /\ RoundCompleted(dispatch_log[i].id)

\* C8 as claimed: a call to an unregistered tool gives
\* {error: "Unknown tool: <name>"}, runs no handler, and the loop goes on.
C8_Claim_UnknownToolIsLocal ==
    \A i \in DOMAIN dispatch_log :
        dispatch_log[i].name \notin TOOLS =>
            /\ ~dispatch_log[i].ran
            /\ dispatch_log[i].result =
                    Dict([error |-> Str("Unknown tool: " \o dispatch_log[i].name)])
            /\ RoundCompleted(dispatch_log[i].id)

C9_ReturnsApology ==
    (exc # Unbound /\ exc.where = "completions.create") =>
        /\ pc = "FAILED"
        /\ returned = Str("I apologize, but I encountered an error: " \o exc.message)
        /\ inference_calls = iteration + 1
        /\ conversation = sent
        /\ Len(dispatch_log) = next_id - 1

C9_NothingAfter ==
    [][pc = "FAILED" =>
        /\ pc' = "FAILED"
        /\ returned' = returned
        /\ inference_calls' = inference_calls
        /\ dispatch_log' = dispatch_log]_vars

\* C9: when the inference call of round k raises, chat returns the apology
\* that ends with the error's text; that call was the k-th and last one, and
\* no tool call is dispatched after it.
C9_InferenceFailureEndsTheSession == []C9_ReturnsApology /\ C9_NothingAfter

\* C9 witness: the inference call of round 2 raises.
C9_Witness ==
    /\ exc # Unbound
    /\ exc.where = "completions.create"
    /\ inference_calls = 2
    /\ Len(dispatch_log) >= 1

\* C10 as claimed: a response with neither content nor tool calls makes chat
\* return the empty string.
C10_Claim_NoContentReturnsEmptyString ==
    (message # Unbound /\ ZeroToolCalls(message) /\ message.content = None) =>
        returned = Str("")

\* C11 (as stated): for every message list and every max_iterations >= 1, what
\* chat returns is a string and it is not empty.
C11_Claim_ReturnsNonEmptyString ==
    (pc \in Terminal /\ max_iterations >= 1)
        => (returned.type = "str" /\ returned.value # "")

\* the session got past priming
PrimedOk == pc \notin {"prime", "RAISED"}

\* the number of system-role entries a transcript begins with
LeadingSystemEntries(t) ==
    Cardinality({ k \in 1..Len(t) : \A j \in 1..k : t[j].role = "system" })

\* the number of system-role entries of a transcript
SystemEntries(t) == Cardinality({ k \in 1..Len(t) : t[k].role = "system" })

\* every inference call so far was sent a transcript that starts with a
\* system-role entry
InferenceSeesSystemFirst ==
    inference_calls >= 1 => (Len(sent) >= 1 /\ sent[1].role = "system")

\* C12 (as stated): every inference call sees a system-role first entry, the
\* primed transcript begins with exactly one system-role entry, and chat
\* inserted the system prompt at most once.
C12_Claim_ExactlyOneLeadingSystemEntry ==
    /\ InferenceSeesSystemFirst
    /\ PrimedOk =>
          /\ LeadingSystemEntries(messages) = 1
          /\ SystemEntries(conversation) - SystemEntries(caller_messages) \in {0, 1}

\* C12 (amended): every inference call sees a system-role first entry; chat
\* inserts the system prompt exactly once when the caller's list is empty or
\* does not start with a system-role entry and never otherwise, so the primed
\* transcript begins with one system-role entry unless the caller's own list
\* begins with more, which are kept.
C12_SystemFirstInsertedAtMostOnce ==
    /\ InferenceSeesSystemFirst
    /\ PrimedOk =>
          /\ LeadingSystemEntries(messages) =
                IF LeadingSystemEntries(caller_messages) = 0
                THEN 1 ELSE LeadingSystemEntries(caller_messages)
          /\ SystemEntries(conversation) - SystemEntries(caller_messages) =
                IF LeadingSystemEntries(caller_messages) = 0 THEN 1 ELSE 0

\* a second inference call of a session whose caller passed no system message
C12_Witness ==
    /\ inference_calls >= 2
    /\ caller_messages = <<UserMessage>>
    /\ sent[1] = SystemMessage

\* C13: priming is idempotent. A caller's list that starts with a system-role
\* entry is used as it is (same entries, same order, nothing prepended), the
\* transcript starts as the primed list, and priming the primed list again
\* would give the primed list.
C13_PrimingIsIdempotent ==
    PrimedOk =>
        /\ (LeadingSystemEntries(caller_messages) >= 1 => messages = caller_messages)
        /\ (LeadingSystemEntries(caller_messages) = 0 =>
                messages = <<SystemMessage>> \o caller_messages)
        /\ SubSeq(conversation, 1, Len(messages)) = messages
        /\ Primed(messages) = messages

\* a session just primed from a list that brought its own system message
C13_Witness ==
    /\ pc = "loop"
    /\ caller_messages = <<CallerSystemMessage, UserMessage>>
    /\ conversation = caller_messages

\* C14: chat never mutates the caller's message list. No step of a session
\* changes the list the caller passed, so on every return (DONE, EXHAUSTED,
\* FAILED) it has the length and the entries it had at the call, whether or
\* not it started with a system message.
C14_CallerListNeverMutated == [][caller_messages' = caller_messages]_vars

\* chat returned after appending to the transcript of a session whose caller's
\* list was kept by priming
C14_Witness ==
    /\ pc \in Terminal
    /\ caller_messages = <<CallerSystemMessage, UserMessage>>
    /\ messages = caller_messages
    /\ Len(conversation) > Len(caller_messages) + 1

\* C15: an exception leaves chat only for a structurally invalid message list,
\* at priming and before any inference call; once an inference call has been
\* attempted every failure ends in a returned apology string naming the error
\* and nothing is raised.
C15_ExceptionsEscapeOnlyAtPriming ==
    /\ pc = "RAISED" =>
          /\ PrimeRaises(caller_messages)
          /\ inference_calls = 0
          /\ conversation = <<>>
          /\ returned = NotReturned
    /\ (inference_calls >= 1 /\ exc # Unbound) =>
          /\ pc = "FAILED"
          /\ returned = Str("I apologize, but I encountered an error: " \o exc.message)

\* a failure while dispatching a tool call, after an inference call, that chat
\* returned as a string
C15_Witness ==
    /\ pc = "FAILED"
    /\ inference_calls >= 1
    /\ exc # Unbound
    /\ exc.where # "completions.create"
    /\ returned.type = "str"

\* the number of dispatches the current round still has to make
PendingCalls ==
    IF pc = "tools" THEN Len(message.tool_calls.items) - tc + 1 ELSE 0

\* the variant of the loop: rounds left in the budget, weighted so that each
\* pending tool call of the current round counts below a whole round
Rank ==
    CASE pc = "prime" -> (max_iterations + 1) * (MaxCalls + 2) + 1
      [] pc = "loop"  -> (max_iterations - iteration) * (MaxCalls + 2) + 1
      [] pc = "tools" -> (max_iterations - iteration - 1) * (MaxCalls + 2) + 1 + PendingCalls
      [] OTHER        -> 0

\* every step of a session uses up some of the budget, which never goes negative
RankDecreases == [][Rank' < Rank /\ Rank' >= 0]_vars

\* C16: every chat invocation terminates. As each inference call and each tool
\* handler returns or raises, a session of a well-formed message list ends in
\* DONE, EXHAUSTED or FAILED, because every step strictly lowers a non-negative
\* rank made of the rounds left to max_iterations and the tool calls left in
\* the round.
C16_SessionTerminates ==
    /\ (pc = "prime" /\ ~PrimeRaises(caller_messages)) ~> (pc \in Terminal)
    /\ RankDecreases

\* a session that ended after the model used its whole budget on rounds of
\* MaxCalls tool calls
C16_Witness ==
    /\ pc \in Terminal
    /\ max_iterations = MaxIter
    /\ Len(dispatch_log) = MaxCalls
    /\ iteration >= 1

\* the part of the transcript that the loop appended after priming
Appended == SubSeq(conversation, Len(messages) + 1, Len(conversation))

\* the tool calls carried by entry k of transcript t
CallsAt(t, k) == IF "tool_calls" \in DOMAIN t[k] THEN t[k].tool_calls ELSE <<>>

\* entry k of t is followed by the results of its first n calls, in the order
\* of the calls
ResultsFollow(t, k, n) ==
    \A j \in 1..n :
        /\ k + j <= Len(t)
        /\ t[k + j].role = "tool"
        /\ t[k + j].tool_call_id = CallsAt(t, k)[j].id

\* t is a sequence of blocks, each an assistant message with N >= 1 calls and
\* its N results, optionally ended by one assistant message without calls
Blocks(t) ==
    /\ Len(t) > 0 => t[1].role = "assistant"
    /\ \A k \in DOMAIN t :
          /\ t[k].role \in {"assistant", "tool"}
          /\ t[k].role = "assistant" =>
                LET n == Len(CallsAt(t, k))
                IN  /\ ResultsFollow(t, k, n)
                    /\ n = 0 => k = Len(t)
                    /\ k + n < Len(t) => t[k + n + 1].role = "assistant"

\* C17 (as stated): a round with N tool calls grows the transcript by the
\* assistant message and exactly N results in the calls' order, each appended
\* before the next call is dispatched, so that between rounds and on return
\* the transcript after priming is a sequence of whole blocks, optionally
\* ended by one assistant message without tool calls.
C17_Claim_TranscriptIsWholeBlocks ==
    /\ pc \in Terminal \cup {"loop"} => Blocks(Appended)
    /\ pc = "tools" =>
          LET k == Len(Appended) - (tc - 1)
          IN  /\ k >= 1
              /\ Appended[k] = AssistantMessage(message)
              /\ ResultsFollow(Appended, k, tc - 1)
              /\ Len(dispatch_log) = next_id - 1 - (Len(message.tool_calls.items) - tc + 1)
              /\ Blocks(SubSeq(Appended, 1, k - 1))

\* RUNNING: the loop is between or inside rounds
Running == pc \in {"loop", "tools"}

\* what chat returns in each terminal state
C18_ReturnedValue ==
    /\ Running => returned = NotReturned
    /\ pc = "DONE" => returned = message.content
    /\ pc = "EXHAUSTED" =>
          returned = Str("I apologize, but I'm having trouble completing this request. Could you try rephrasing?")
    /\ pc = "FAILED" =>
          returned = Str("I apologize, but I encountered an error: " \o exc.message)

\* a session starts RUNNING, and a terminal state is never left: no inference
\* call, no dispatch, no append, no other return value
C18_Absorbing ==
    [][/\ pc = "prime" => pc' \in {"loop", "RAISED"}
       /\ pc \in Terminal =>
            /\ pc' = pc
            /\ returned' = returned
            /\ inference_calls' = inference_calls
            /\ dispatch_log' = dispatch_log
            /\ conversation' = conversation
       /\ pc' \in Terminal => Running]_vars

\* C18: a session starts in RUNNING and DONE, EXHAUSTED and FAILED are
\* absorbing: a terminal state is entered from RUNNING only, at most once, and
\* after it no inference call, no tool dispatch and no append happens; chat
\* returns the content for DONE, the fixed apology for EXHAUSTED and the apology
\* embedding the error for FAILED.
C18_TerminalStatesAreAbsorbing == []C18_ReturnedValue /\ C18_Absorbing

\* the budget ran out after a round of tool calls
C18_Witness ==
    /\ pc = "EXHAUSTED"
    /\ iteration = max_iterations
    /\ iteration >= 1
    /\ returned.type = "str"

\* s is a prefix of t
IsPrefix(s, t) == Len(s) <= Len(t) /\ SubSeq(t, 1, Len(s)) = s

\* the transcript ends with the assistant message of the round just finished
\* and one result for each of its tool calls
EndsWithLastRound(t) ==
    LET n == Len(message.tool_calls.items)
    IN  /\ Len(t) > n
        /\ t[Len(t) - n] = AssistantMessage(message)
        /\ ResultsFollow(t, Len(t) - n, n)

\* C19: the transcript is append-only within a session: after priming every
\* step leaves the previous transcript as a prefix of the new one, and every
\* inference call receives the whole transcript, which from the second round
\* on ends with the previous round's assistant message and all its results.
C19_TranscriptIsAppendOnly ==
    [][/\ pc # "prime" => IsPrefix(conversation, conversation')
       /\ inference_calls' # inference_calls =>
            /\ sent' = conversation
            /\ iteration >= 1 => EndsWithLastRound(sent')]_vars

\* the inference call of a second round received the first round's two results
C19_Witness ==
    /\ inference_calls >= 2
    /\ Len(sent) >= Len(messages) + 3
    /\ sent[Len(sent)].role = "tool"
    /\ IsPrefix(sent, conversation)

\* C20: each tool call returned by the model is dispatched at most once and its
\* handler runs at most once: the dispatch log holds every call id at most once
\* and never more entries than calls were issued, also after a handler raised
\* or returned an error payload, and the transcript holds no more results than
\* dispatches were made.
C20_DispatchedAtMostOnce ==
    /\ \A i, j \in DOMAIN dispatch_log :
          dispatch_log[i].id = dispatch_log[j].id => i = j
    /\ Len(dispatch_log) <= next_id - 1
    /\ \A i \in DOMAIN dispatch_log :
          Cardinality(ToolResultsFor(conversation, dispatch_log[i].id)) <= 1

\* chat returned after a further round, one round after a handler raised or
\* returned an error payload
C20_Witness ==
    /\ pc \in Terminal
    /\ inference_calls >= 2
    /\ \E i \in DOMAIN dispatch_log :
          /\ dispatch_log[i].ran
          /\ dispatch_log[i].outcome \in {"raises", "returns_error"}

\* C21 (as stated): every dispatch, whatever its outcome (handler success,
\* unknown tool, handler raised, payload that failed to parse), has put exactly
\* one tool-result message into the transcript, carrying the id of the call
\* that was dispatched.
C21_Claim_OneResultPerDispatch ==
    \A i \in DOMAIN dispatch_log :
        Cardinality(ToolResultsFor(conversation, dispatch_log[i].id)) = 1

\* the tool calls a response carries, as a sequence (None counts as none)
ResponseCalls(msg) ==
    IF msg.tool_calls.type = "list" THEN msg.tool_calls.items ELSE <<>>

\* C25: the assistant message appended in a round carries the response's
\* content and its tool calls in the order returned, each with its id, its
\* name and its raw argument payload unchanged, and it has a tool_calls field
\* exactly when the response contained at least one tool call.
C25_AssistantMessageCarriesTheCalls ==
    (message # Unbound /\ Len(conversation) > Len(sent)) =>
        LET m == conversation[Len(sent) + 1]
            calls == ResponseCalls(message)
        IN  /\ m.role = "assistant"
            /\ m.content = message.content
            /\ ("tool_calls" \in DOMAIN m) <=> (Len(calls) >= 1)
            /\ Len(calls) >= 1 =>
                  /\ Len(m.tool_calls) = Len(calls)
                  /\ \A i \in 1..Len(calls) :
                        /\ m.tool_calls[i].id = calls[i].id
                        /\ m.tool_calls[i].function.name = calls[i].function.name
                        /\ m.tool_calls[i].function.arguments = calls[i].function.arguments

\* a response with two tool calls, the second with a payload that does not
\* parse, was appended
C25_Witness ==
    /\ message # Unbound
    /\ Len(ResponseCalls(message)) = 2
    /\ ResponseCalls(message)[2].function.arguments = ARGS_MALFORMED
    /\ Len(conversation) > Len(sent)
    /\ conversation[Len(sent) + 1].tool_calls[2].function.arguments = ARGS_MALFORMED

\* at the first loop test no budget from -MaxIter to 0 yields an iteration
NoIterationWithoutBudget ==
    (pc = "loop" /\ iteration = 0) => \A n \in -MaxIter..0 : ~InRange(iteration, n)

\* C26: with max_iterations <= 0 the loop body never runs: chat makes no
\* inference call, dispatches no tool call, appends nothing to the primed
\* transcript and returns the fixed exhaustion apology.
C26_NoBudgetNoInference ==
    /\ NoIterationWithoutBudget
    /\ max_iterations <= 0 =>
        /\ inference_calls = 0
        /\ dispatch_log = <<>>
        /\ pc \in {"prime", "loop", "EXHAUSTED", "RAISED"}
        /\ PrimedOk => conversation = messages
        /\ pc \in Terminal =>
              returned = Str("I apologize, but I'm having trouble completing this request. Could you try rephrasing?")

\* chat returned for a caller who passed max_iterations = 0
C26_Witness ==
    /\ max_iterations = 0
    /\ pc = "EXHAUSTED"
    /\ returned # NotReturned
    /\ conversation = <<SystemMessage, UserMessage>>

\* the dispatch log's entries for call id
DispatchesOf(id) == { i \in DOMAIN dispatch_log : dispatch_log[i].id = id }

\* C27: when chat ends in EXHAUSTED with max_iterations >= 1, every tool call
\* of the last round was dispatched (its handler's body entered whenever the
\* tool is registered and the arguments bind) and its result is the tail of
\* the transcript, while the last inference call was sent the transcript
\* without the last round.
C27_LastRoundDispatchedUnseen ==
    (pc = "EXHAUSTED" /\ max_iterations >= 1) =>
        LET calls == ResponseCalls(message)
            n == Len(calls)
        IN  /\ n >= 1
            /\ \A k \in 1..n :
                  /\ Cardinality(DispatchesOf(calls[k].id)) = 1
                  /\ \A i \in DispatchesOf(calls[k].id) :
                        /\ dispatch_log[i].result # Unbound
                        /\ dispatch_log[i].ran =
                              (calls[k].function.name \in TOOLS
                                 /\ dispatch_log[i].outcome \in HandlerOutcomes)
                  /\ conversation[Len(conversation) - n + k].role = "tool"
                  /\ conversation[Len(conversation) - n + k].tool_call_id = calls[k].id
            /\ inference_calls = max_iterations
            /\ sent = SubSeq(conversation, 1, Len(conversation) - n - 1)

\* the budget ran out after a last round of two tool calls, one of which ran
\* its handler
C27_Witness ==
    /\ pc = "EXHAUSTED"
    /\ max_iterations >= 1
    /\ Len(ResponseCalls(message)) = 2
    /\ \E i \in DOMAIN dispatch_log : dispatch_log[i].ran
    /\ conversation[Len(conversation)].role = "tool"

\* parsed payloads that are valid JSON but no object: null, a string, a list
NonObjects == { None, Str("John Doe"), List(<<1>>) }

\* the position of call id in its round
PositionInRound(id) ==
    CHOOSE k \in DOMAIN RoundOf(id) : RoundOf(id)[k].id = id

\* C28: a tool call whose payload parses to JSON that is no object gets an
\* {error: ...} result under its id, the handler's body does not run, the
\* failure does not end the session, and the next call of the round, if there
\* is one, is dispatched. The first conjunct is about execute_tool alone and
\* is evaluated once per session, before priming.
C28_NonObjectArgumentsAreLocal ==
    /\ pc = "prime" =>
          \A v \in NonObjects :
              /\ ~HandlerRuns("search_patient", v)
              /\ \A outcome \in HandlerOutcomes :
                    DOMAIN ExecuteTool("search_patient", v, outcome).items = {"error"}
    /\ \A i \in DOMAIN dispatch_log :
          (dispatch_log[i].arguments # Unbound
             /\ dispatch_log[i].arguments.type # "dict") =>
                /\ ~dispatch_log[i].ran
                /\ DOMAIN dispatch_log[i].result.items = {"error"}
                /\ Cardinality(ToolResultsFor(conversation, dispatch_log[i].id)) = 1
                /\ (i = Len(dispatch_log) /\ pc = "FAILED")
                      => exc.where = "completions.create"
                /\ LET id == dispatch_log[i].id
                   IN  (pc \in Terminal /\ PositionInRound(id) < Len(RoundOf(id)))
                          => Dispatched(RoundOf(id)[PositionInRound(id) + 1].id)

\* chat returned after a round whose first call had a list for arguments and
\* whose second call was dispatched
C28_Witness ==
    /\ pc \in Terminal
    /\ Len(dispatch_log) >= 2
    /\ dispatch_log[1].raw = ARGS_LIST
    /\ dispatch_log[2].id = dispatch_log[1].id + 1
    /\ Len(RoundOf(dispatch_log[1].id)) = 2

\* the instance holds what its constructor stored, and the last inference
\* call was made with the instance's catalog and tool choice "auto"
C22_SameCatalog ==
    /\ self.tool_schemas = ToolSchemas
    /\ self.system_prompt = "You are a care coordinator assistant."
    /\ inference_calls >= 1 =>
          /\ request.tools = self.tool_schemas
          /\ Len(request.tools) = 7
          /\ request.tool_choice = "auto"

\* C22: every inference call of a session is made with the same tool-schema
\* catalog and tool choice "auto", and no step of chat changes the catalog or
\* the system prompt of the instance.
C22_CatalogIsConstant == []C22_SameCatalog /\ [][self' = self]_vars

\* the inference call of a later round, made after tool results were appended
C22_Witness ==
    /\ inference_calls >= 2
    /\ iteration >= 1
    /\ request # Unbound
    /\ request.tools = ToolSchemas
    /\ Len(dispatch_log) >= 1

(***************************************************************************)
(* get_llm, llm.py lines 239-245, called from several threads.             *)
(***************************************************************************)
Threads == {"t1", "t2"}

\* the n-th CareCoordinatorLLM object constructed in the process
Instance(n) == [type |-> "CareCoordinatorLLM", id |-> n]

\* line 139 of the module never runs get_llm under a lock; the test of line
\* 242 and the assignment of line 243 are separate steps of a thread
SingletonInit ==
    /\ ChatIdle
    /\ SessionsIdle
    /\ DatabaseIdle
    /\ EndpointIdle
    /\ llm_instance = None
    /\ threads = [t \in Threads |-> [pc |-> "idle", calls |-> 0]]
    /\ constructed = 0
    /\ handed_out = {}

\* a thread calls get_llm
GetLlmCall(t) ==
    /\ threads[t].pc = "idle"
    /\ threads[t].calls < MaxGetLlmCalls
    /\ threads' = [threads EXCEPT ![t] = [pc |-> "test", calls |-> @.calls + 1]]
    /\ UNCHANGED << llm_instance, constructed, handed_out >>
    /\ UNCHANGED << chat_vars, session_vars, database_vars, endpoint_vars >>

\* line 242: if _llm_instance is None
GetLlmTest(t) ==
    /\ threads[t].pc = "test"
    /\ threads' = [threads EXCEPT
                     ![t].pc = IF llm_instance = None THEN "construct" ELSE "return"]
    /\ UNCHANGED << llm_instance, constructed, handed_out >>
    /\ UNCHANGED << chat_vars, session_vars, database_vars, endpoint_vars >>

\* line 243: the constructor returns and the global is assigned
GetLlmConstruct(t) ==
    /\ threads[t].pc = "construct"
    /\ constructed' = constructed + 1
    /\ llm_instance' = Instance(constructed + 1)
    /\ threads' = [threads EXCEPT ![t].pc = "return"]
    /\ UNCHANGED handed_out
    /\ UNCHANGED << chat_vars, session_vars, database_vars, endpoint_vars >>

\* lines 14-15, 23: the constructor raises (no API key, no prompt file); the
\* assignment of line 243 does not happen and get_llm raises
GetLlmConstructRaises(t) ==
    /\ threads[t].pc = "construct"
    /\ threads' = [threads EXCEPT ![t].pc = "idle"]
    /\ UNCHANGED << llm_instance, constructed, handed_out >>
    /\ UNCHANGED << chat_vars, session_vars, database_vars, endpoint_vars >>

\* line 244: return _llm_instance
GetLlmReturn(t) ==
    /\ threads[t].pc = "return"
    /\ handed_out' = handed_out \cup {llm_instance}
    /\ threads' = [threads EXCEPT ![t].pc = "idle"]
    /\ UNCHANGED << llm_instance, constructed >>
    /\ UNCHANGED << chat_vars, session_vars, database_vars, endpoint_vars >>

SingletonNext ==
    \E t \in Threads :
        \/ GetLlmCall(t)
        \/ GetLlmTest(t)
        \/ GetLlmConstruct(t)
        \/ GetLlmConstructRaises(t)
        \/ GetLlmReturn(t)

SingletonSpec == SingletonInit /\ [][SingletonNext]_vars

\* C29 (as stated): get_llm constructs CareCoordinatorLLM at most once per
\* process and every call returns that one instance, also when the first calls
\* come from several threads at once; a constructor that raised stored nothing.
C29_Claim_OneInstancePerProcess ==
    /\ constructed <= 1
    /\ Cardinality(handed_out) <= 1
    /\ None \notin handed_out
    /\ constructed = 0 => llm_instance = None

(***************************************************************************)
(* Two chat invocations running at once on one CareCoordinatorLLM.         *)
(***************************************************************************)
Sessions == {"A", "B"}

\* where a list can live: in the frame of one invocation, or on the instance
Owners == Sessions \cup {"self"}

\* the message list the caller of invocation s passes
SessionHistory(s) == << [role |-> "user", content |-> Str("question of " \o s)] >>

\* a transcript kept in an attribute of the shared instance
ConversationOwner_OnInstance(s) == "self"

\* line 156: `conversation` is a local name, bound to a list made by this
\* invocation
ConversationOwner(s) == s

\* what the model client answers to invocation s in iteration i: a final
\* answer, or one tool call
SessionResponses(s, i) ==
    { [content |-> Str("answer for " \o s), tool_calls |-> None] }
    \cup
    { [content |-> None,
       tool_calls |->
          List(<< [id |-> <<s, i>>,
                   function |-> [name |-> kind[1], arguments |-> kind[2]]] >>)] :
        kind \in { <<"search_patient", ARGS_PATIENT>>, <<"list_providers", ARGS_EMPTY>> } }

SessionsInit ==
    /\ ChatIdle
    /\ SingletonIdle
    /\ DatabaseIdle
    /\ EndpointIdle
    /\ frames = [s \in Sessions |->
                    [pc |-> "prime", messages |-> SessionHistory(s),
                     conversation |-> "unbound", iteration |-> 0,
                     message |-> Unbound, appended |-> 0]]
    /\ heap = [o \in Owners |-> <<>>]

\* lines 153-156 in invocation s
SessionPrime(s) ==
    /\ frames[s].pc = "prime"
    /\ frames' = [frames EXCEPT ![s].pc = "loop",
                               ![s].messages = Primed(@),
                               ![s].conversation = ConversationOwner(s)]
    /\ heap' = [heap EXCEPT ![ConversationOwner(s)] = Primed(frames[s].messages)]
    /\ UNCHANGED << chat_vars, singleton_vars, database_vars, endpoint_vars >>

\* lines 164-197 in invocation s
SessionInferenceReturns(s) ==
    /\ frames[s].pc = "loop"
    /\ InRange(frames[s].iteration, MaxIter)
    /\ \E msg \in SessionResponses(s, frames[s].iteration) :
          /\ heap' = [heap EXCEPT ![frames[s].conversation] =
                                     Append(@, AssistantMessage(msg))]
          /\ frames' = [frames EXCEPT
                          ![s].message = msg,
                          ![s].appended = @ + 1,
                          ![s].pc = IF NoToolCalls(msg) THEN "DONE" ELSE "tools"]
    /\ UNCHANGED << chat_vars, singleton_vars, database_vars, endpoint_vars >>

\* lines 230-232 in invocation s
SessionInferenceRaises(s) ==
    /\ frames[s].pc = "loop"
    /\ InRange(frames[s].iteration, MaxIter)
    /\ frames' = [frames EXCEPT ![s].pc = "FAILED"]
    /\ UNCHANGED heap
    /\ UNCHANGED << chat_vars, singleton_vars, database_vars, endpoint_vars >>

\* lines 200-228 in invocation s, for the one tool call of the round
SessionDispatch(s) ==
    /\ frames[s].pc = "tools"
    /\ LET tool_call == frames[s].message.tool_calls.items[1]
           parsed == ParseArguments(tool_call.function.arguments)
           result == ExecuteTool(tool_call.function.name, parsed.arguments, "returns")
       IN  heap' = [heap EXCEPT ![frames[s].conversation] =
                       Append(@, ToolMessage(tool_call, JsonDumps(result).value))]
    /\ frames' = [frames EXCEPT ![s].pc = "loop",
                               ![s].appended = @ + 1,
                               ![s].iteration = @ + 1]
    /\ UNCHANGED << chat_vars, singleton_vars, database_vars, endpoint_vars >>

\* lines 234-236 in invocation s
SessionExhausted(s) ==
    /\ frames[s].pc = "loop"
    /\ ~InRange(frames[s].iteration, MaxIter)
    /\ frames' = [frames EXCEPT ![s].pc = "EXHAUSTED"]
    /\ UNCHANGED heap
    /\ UNCHANGED << chat_vars, singleton_vars, database_vars, endpoint_vars >>

SessionsNext ==
    \E s \in Sessions :
        \/ SessionPrime(s)
        \/ SessionInferenceReturns(s)
        \/ SessionInferenceRaises(s)
        \/ SessionDispatch(s)
        \/ SessionExhausted(s)

SessionsSpec == SessionsInit /\ [][SessionsNext]_vars

\* the transcript invocation s appends to and sends to the model
TranscriptOf(s) == heap[frames[s].conversation]

\* message m was passed to, or produced in, invocation s
OwnMessage(s, m) ==
    CASE m.role = "system" -> m = SystemMessage
      [] m.role = "user" -> m = SessionHistory(s)[1]
      [] m.role = "tool" -> m.tool_call_id[1] = s
      [] m.role = "assistant" ->
            IF "tool_calls" \in DOMAIN m
            THEN \A k \in DOMAIN m.tool_calls : m.tool_calls[k].id[1] = s
            ELSE m.content = Str("answer for " \o s)

\* the transcript of a primed invocation holds its own messages, all of them
\* and no others
C23_OwnTranscript ==
    \A s \in Sessions :
        frames[s].pc # "prime" =>
            /\ \A k \in DOMAIN TranscriptOf(s) : OwnMessage(s, TranscriptOf(s)[k])
            /\ Len(TranscriptOf(s)) = 2 + frames[s].appended
            /\ SubSeq(TranscriptOf(s), 1, 2) = <<SystemMessage>> \o SessionHistory(s)

\* C23: two chat invocations running at once on one instance do not interfere:
\* under every interleaving each transcript holds exactly the messages of its
\* own invocation, and no step changes what they share, the instance's system
\* prompt and tool-schema catalog.
C23_InvocationsDoNotInterfere == []C23_OwnTranscript /\ [][self' = self]_vars

\* both invocations returned, each after a round with a tool call, their steps
\* having alternated
C23_Witness ==
    /\ \A s \in Sessions : frames[s].pc = "DONE" /\ frames[s].iteration = 1
    /\ Len(heap["A"]) = 5
    /\ Len(heap["B"]) = 5

(***************************************************************************)
(* POST /appointments (app.py lines 118-152) on get_db_connection          *)
(* (database.py lines 7-18), for two requests running at once.             *)
(***************************************************************************)
Requests == {"r1", "r2"}

\* both requests ask for the same provider, department and datetime
SlotData ==
    [provider_id |-> 7, department_name |-> "Cardiology",
     datetime |-> "2026-11-03T09:00:00"]

\* the JSON body of request r
RequestData(r) ==
    [patient_id |-> r, provider_id |-> SlotData.provider_id,
     department_name |-> SlotData.department_name,
     datetime |-> SlotData.datetime, appointment_type |-> "NEW"]

\* the exceptions the driver raises in the body, in commit and in rollback
BODY_ERROR == "OperationalError: server closed the connection unexpectedly"
COMMIT_ERROR == "OperationalError: could not commit"
ROLLBACK_ERROR == "InterfaceError: connection already closed"
CONNECT_ERROR == "OperationalError: could not connect to server"

\* a test for a row already booked on the slot, made before the INSERT
InsertAllowed_SlotFree(rows, data) ==
    \A k \in DOMAIN rows :
        ~(/\ rows[k].provider_id = data.provider_id
          /\ rows[k].department_name = data.department_name
          /\ rows[k].datetime = data.datetime)

\* app.py lines 137-140: once the department was found the INSERT is issued,
\* whatever rows the table holds
InsertAllowed(rows, data) == TRUE

\* database.py lines 14-16: what leaves the with statement after the except
\* clause ran for exception e: e itself, unless rollback raised first
Reraised(e, rollback) == IF rollback = "raised" THEN ROLLBACK_ERROR ELSE e

\* the connection of request r that is inside its with statement
OpenConn(r) == requests[r].conn

DatabaseInit ==
    /\ ChatIdle
    /\ SingletonIdle
    /\ SessionsIdle
    /\ EndpointIdle
    /\ requests = [r \in Requests |->
                      [pc |-> "lookup", conn |-> 0, dept |-> None, response |-> 0,
                       error |-> "none"]]
    /\ conns = <<>>
    /\ appointments = <<>>

\* database.py line 10: psycopg2.connect returns, the with body is entered
DbConnect(r) ==
    /\ requests[r].pc \in {"lookup", "insert"}
    /\ conns' = Append(conns,
                       [owner |-> r, purpose |-> requests[r].pc, phase |-> "body",
                        body |-> "running", commit |-> "none", rollback |-> "none",
                        closes |-> 0, exc |-> "none", raised |-> "none"])
    /\ requests' = [requests EXCEPT ![r].pc = "with", ![r].conn = Len(conns) + 1]
    /\ UNCHANGED appointments
    /\ UNCHANGED << chat_vars, singleton_vars, session_vars, endpoint_vars >>

\* database.py line 10: psycopg2.connect raises; nothing was opened, the
\* exception leaves create_appointment and the framework answers 500
DbConnectRaises(r) ==
    /\ requests[r].pc \in {"lookup", "insert"}
    /\ requests' = [requests EXCEPT ![r].pc = "responded", ![r].response = 500,
                                    ![r].error = CONNECT_ERROR]
    /\ UNCHANGED << conns, appointments >>
    /\ UNCHANGED << chat_vars, singleton_vars, session_vars, endpoint_vars >>

\* database.py lines 21-26, 45-50: the statement runs and the row is fetched;
\* the SELECT finds the department or not, the INSERT returns the new row
DbBodyReturns(r) ==
    /\ requests[r].pc = "with"
    /\ conns[OpenConn(r)].phase = "body"
    /\ conns' = [conns EXCEPT ![OpenConn(r)].phase = "commit",
                              ![OpenConn(r)].body = "returned"]
    /\ \E found \in BOOLEAN :
          requests' = [requests EXCEPT ![r].dept =
                          IF conns[OpenConn(r)].purpose = "lookup"
                          THEN (IF found THEN Dict([id |-> 3]) ELSE None)
                          ELSE @]
    /\ UNCHANGED appointments
    /\ UNCHANGED << chat_vars, singleton_vars, session_vars, endpoint_vars >>

\* the statement raises inside the with body
DbBodyRaises(r) ==
    /\ requests[r].pc = "with"
    /\ conns[OpenConn(r)].phase = "body"
    /\ conns' = [conns EXCEPT ![OpenConn(r)].phase = "except",
                              ![OpenConn(r)].body = "raised",
                              ![OpenConn(r)].exc = BODY_ERROR]
    /\ UNCHANGED << requests, appointments >>
    /\ UNCHANGED << chat_vars, singleton_vars, session_vars, endpoint_vars >>

\* database.py line 13: conn.commit() returns; an inserted row is now in the
\* table
DbCommitReturns(r) ==
    /\ requests[r].pc = "with"
    /\ conns[OpenConn(r)].phase = "commit"
    /\ conns' = [conns EXCEPT ![OpenConn(r)].phase = "finally",
                              ![OpenConn(r)].commit = "returned"]
    /\ appointments' =
          IF conns[OpenConn(r)].purpose = "insert"
          THEN Append(appointments,
                      [patient_id |-> RequestData(r).patient_id,
                       provider_id |-> RequestData(r).provider_id,
                       department_name |-> RequestData(r).department_name,
                       datetime |-> RequestData(r).datetime])
          ELSE appointments
    /\ UNCHANGED requests
    /\ UNCHANGED << chat_vars, singleton_vars, session_vars, endpoint_vars >>

\* database.py line 13: conn.commit() raises
DbCommitRaises(r) ==
    /\ requests[r].pc = "with"
    /\ conns[OpenConn(r)].phase = "commit"
    /\ conns' = [conns EXCEPT ![OpenConn(r)].phase = "except",
                              ![OpenConn(r)].commit = "raised",
                              ![OpenConn(r)].exc = COMMIT_ERROR]
    /\ UNCHANGED << requests, appointments >>
    /\ UNCHANGED << chat_vars, singleton_vars, session_vars, endpoint_vars >>

\* database.py lines 14-16: conn.rollback() returns or raises, and an
\* exception goes on to the finally clause
DbRollback(r) ==
    /\ requests[r].pc = "with"
    /\ conns[OpenConn(r)].phase = "except"
    /\ \E outcome \in {"returned", "raised"} :
          conns' = [conns EXCEPT
                      ![OpenConn(r)].phase = "finally",
                      ![OpenConn(r)].rollback = outcome,
                      ![OpenConn(r)].raised = Reraised(conns[OpenConn(r)].exc, outcome)]
    /\ UNCHANGED << requests, appointments >>
    /\ UNCHANGED << chat_vars, singleton_vars, session_vars, endpoint_vars >>

\* database.py lines 17-18: conn.close(); then, in create_appointment, the
\* exception leaves the endpoint (500), or the lookup found no department
\* (404, app.py lines 136-137), or the INSERT comes next, or the answer is 200
DbClose(r) ==
    /\ requests[r].pc = "with"
    /\ conns[OpenConn(r)].phase = "finally"
    /\ conns' = [conns EXCEPT ![OpenConn(r)].phase = "closed",
                              ![OpenConn(r)].closes = @ + 1]
    /\ LET c == conns[OpenConn(r)]
       IN  requests' =
             [requests EXCEPT ![r] =
                IF c.raised # "none"
                THEN [@ EXCEPT !.pc = "responded", !.response = 500, !.error = c.raised]
                ELSE IF c.purpose = "insert"
                THEN [@ EXCEPT !.pc = "responded", !.response = 200]
                ELSE IF requests[r].dept = None
                THEN [@ EXCEPT !.pc = "responded", !.response = 404]
                ELSE IF InsertAllowed(appointments, RequestData(r))
                THEN [@ EXCEPT !.pc = "insert"]
                ELSE [@ EXCEPT !.pc = "responded", !.response = 409]]
    /\ UNCHANGED appointments
    /\ UNCHANGED << chat_vars, singleton_vars, session_vars, endpoint_vars >>

DatabaseNext ==
    \E r \in Requests :
        \/ DbConnect(r)
        \/ DbConnectRaises(r)
        \/ DbBodyReturns(r)
        \/ DbBodyRaises(r)
        \/ DbCommitReturns(r)
        \/ DbCommitRaises(r)
        \/ DbRollback(r)
        \/ DbClose(r)

DatabaseSpec == DatabaseInit /\ [][DatabaseNext]_vars

\* the connections request r opened for its lookup or for its insert
ConnsOf(r, purpose) ==
    { k \in DOMAIN conns : conns[k].owner = r /\ conns[k].purpose = purpose }

\* the committed rows on the slot both requests ask for
SlotRows ==
    { k \in DOMAIN appointments :
        /\ appointments[k].provider_id = SlotData.provider_id
        /\ appointments[k].department_name = SlotData.department_name
        /\ appointments[k].datetime = SlotData.datetime }

\* request r got its department: the lookup's with statement was left without
\* an exception and the row was there
DepartmentFound(r) ==
    /\ requests[r].dept # None
    /\ \E k \in ConnsOf(r, "lookup") :
          conns[k].phase = "closed" /\ conns[k].raised = "none"

\* the INSERT of request r was committed
InsertCommitted(r) ==
    \E k \in ConnsOf(r, "insert") : conns[k].commit = "returned"

\* C24: the code that creates an appointment has no guard against double
\* booking. The lookup and the insert of a request run on two connections, the
\* first committed and closed before the second is opened; a request that
\* found its department goes on to the INSERT whatever rows are in the table
\* and is never turned away because the slot is taken; so every request whose
\* INSERT was committed, and every request answered 200, added a row for the
\* same provider, department and datetime.
C24_InsertIsUnguarded ==
    /\ \A r \in Requests :
          /\ requests[r].response \in {0, 200, 404, 500}
          /\ \A k \in ConnsOf(r, "insert") :
                \E j \in ConnsOf(r, "lookup") :
                    /\ j < k
                    /\ conns[j].phase = "closed"
                    /\ conns[j].commit = "returned"
          /\ (DepartmentFound(r) /\ requests[r].pc = "responded") =>
                \/ ConnsOf(r, "insert") # {}
                \/ requests[r].error = CONNECT_ERROR
          /\ requests[r].response = 200 => InsertCommitted(r)
    /\ Cardinality(SlotRows) = Cardinality({ r \in Requests : InsertCommitted(r) })

\* both requests passed the department lookup before either opened its second
\* connection, and both executed the INSERT for the same slot
C24_Witness ==
    /\ \A r \in Requests :
          /\ DepartmentFound(r)
          /\ \E k \in ConnsOf(r, "insert") : conns[k].body = "returned"
    /\ \A j \in DOMAIN conns : \A k \in DOMAIN conns :
          (conns[j].purpose = "lookup" /\ conns[k].purpose = "insert") => j < k
    /\ Cardinality(SlotRows) = 2

\* the with statement of connection c was left, or is about to be
Leaving(c) == c.phase \in {"finally", "closed"}

\* the body or the commit of connection c raised
Raising(c) == c.body = "raised" \/ c.commit = "raised"

\* close is called once, at the end; commit is called only after the body
\* returned; rollback is called exactly when the body or the commit raised
ClosedOnceCommitAfterBody(c) ==
    /\ c.closes = IF c.phase = "closed" THEN 1 ELSE 0
    /\ c.commit # "none" => c.body = "returned"
    /\ c.body = "raised" => c.exc = BODY_ERROR
    /\ c.commit = "raised" => c.exc = COMMIT_ERROR
    /\ Leaving(c) => (Raising(c) <=> c.rollback # "none")
    /\ (Leaving(c) /\ ~Raising(c)) => c.raised = "none"

\* a request that was answered has left none of its connections open, and an
\* exception that left the with statement is the one the caller got
AnsweredRequestsHoldNoConnection ==
    \A r \in Requests :
        requests[r].pc = "responded" =>
            \A k \in DOMAIN conns :
                conns[k].owner = r =>
                    /\ conns[k].phase = "closed"
                    /\ conns[k].raised # "none" => requests[r].error = conns[k].raised

\* C30 (as stated): every connection get_db_connection opened is closed
\* exactly once on every path, commit is attempted only when the body finished
\* without raising, and when the body or the commit raised the transaction is
\* rolled back and that same exception is raised to the caller.
C30_Claim_SameExceptionReraised ==
    /\ AnsweredRequestsHoldNoConnection
    /\ \A k \in DOMAIN conns :
          /\ ClosedOnceCommitAfterBody(conns[k])
          /\ (Leaving(conns[k]) /\ Raising(conns[k])) =>
                conns[k].raised = conns[k].exc

\* what the except clause of get_db_connection does deliver: the original
\* exception when rollback returned, and the exception of rollback when it
\* raised
RollbackErrorReplacesOriginal ==
    \A k \in DOMAIN conns :
        (Leaving(conns[k]) /\ Raising(conns[k])) =>
            conns[k].raised =
                IF conns[k].rollback = "returned"
                THEN conns[k].exc
                ELSE ROLLBACK_ERROR


(***************************************************************************)
(* The web application: importing app.py, and POST /chat.                 *)
(***************************************************************************)
\* the names the module llm.py binds at module level: its imports (lines
\* 1-5), logger (line 7), the class (line 10), and the lazy getter with its
\* global (lines 239-245)
LlmModuleNames ==
    { "json", "OpenAI", "config", "tools", "logging", "logger",
      "CareCoordinatorLLM", "_llm_instance", "get_llm" }

\* app.py line 5, `from llm import llm`: the name is looked up in llm.py
ImportFromLlm(name) ==
    IF name \in LlmModuleNames THEN "serving" ELSE "ImportError"

HttpRequests == {"q1", "q2"}

\* request.json raising: the body is no JSON at all
BAD_REQUEST == "400 Bad Request: The browser (or proxy) sent a request that this server could not understand."
\* data.get on a body that is JSON but no object
NO_GET == "object has no attribute 'get'"

\* what request.json yields (line 22): an exception, or the parsed body
RequestBodies ==
    { [type |-> "raises", text |-> BAD_REQUEST],
      None,
      List(<<>>),
      Dict(<<>>),
      Dict([messages |-> List(<<>>)]),
      Dict([messages |-> None]),
      Dict([messages |-> List(<<UserMessage>>)]),
      Dict([messages |-> List(<<CallerSystemMessage, UserMessage>>)]),
      Dict([messages |-> List(<<Str("hello")>>)]),
      Dict([messages |-> Str("hi")]) }

\* dict.get(key, default)
DictGet(d, key, default) ==
    IF key \in DOMAIN d.items THEN d.items[key] ELSE default

\* what llm.chat(messages) can come to (llm.py lines 139-236): line 153 raises
\* on a first entry without .get (an entry of a list, a character of a str);
\* otherwise chat returns the content of the final round (a str, "" or None),
\* the apology of line 232 or the apology of line 236
LlmChatOutcomes(msgs) ==
    IF msgs.type # "list" \/ PrimeRaises(msgs.items)
    THEN { [kind |-> "raises", text |-> "'str' " \o NO_GET] }
    ELSE { [kind |-> "returns", value |-> v] :
              v \in Contents \cup { Str(EXHAUSTED_MESSAGE),
                                    Str(ErrorApology("Connection error.")) } }

\* jsonify(payload), status: the response of the endpoint, with how many times
\* llm.chat was called and the exception that was caught, if one was
HttpResponse(status, payload, calls, caught) ==
    [status |-> status, json |-> payload, chat_calls |-> calls, caught |-> caught]

\* app.py lines 16-35: the function chat, for what request.json yields and
\* what llm.chat comes to if it is called
ChatEndpoint(body, outcome) ==
    IF body.type = "raises"
    THEN HttpResponse(500, Dict([error |-> Str(body.text)]), 0, body.text)
    ELSE IF body.type # "dict"
    THEN HttpResponse(500, Dict([error |-> Str("'" \o body.type \o "' " \o NO_GET)]), 0,
                      "'" \o body.type \o "' " \o NO_GET)
    ELSE LET msgs == DictGet(body, "messages", List(<<>>))
         IN  IF ~Truthy(msgs)
             THEN HttpResponse(400, Dict([error |-> Str("messages required")]), 0, "none")
             ELSE IF outcome.kind = "raises"
             THEN HttpResponse(500, Dict([error |-> Str(outcome.text)]), 1, outcome.text)
             ELSE HttpResponse(200, Dict([message |-> outcome.value]), 1, "none")

\* the value of `messages` (line 23) for a body that is an object
MessagesOf(body) ==
    IF body.type = "dict" THEN DictGet(body, "messages", List(<<>>)) ELSE List(<<>>)

EndpointInit ==
    /\ ChatIdle
    /\ SingletonIdle
    /\ SessionsIdle
    /\ DatabaseIdle
    /\ app_module = "not_imported"
    /\ chat_requests \in
          [HttpRequests ->
              { [pc |-> "new", body |-> b, response |-> None] : b \in RequestBodies }]

\* app.py lines 1-8: the module is imported, when the server process starts
ImportApp ==
    /\ app_module = "not_imported"
    /\ app_module' = ImportFromLlm("llm")
    /\ UNCHANGED chat_requests
    /\ UNCHANGED << chat_vars, singleton_vars, session_vars, database_vars >>

\* a client posts to /chat: the function chat runs if the application is
\* being served; after a failed import no process listens and the client gets
\* no response
PostChat(q) ==
    /\ app_module # "not_imported"
    /\ chat_requests[q].pc = "new"
    /\ \/ /\ app_module = "serving"
          /\ \E outcome \in LlmChatOutcomes(MessagesOf(chat_requests[q].body)) :
                chat_requests' =
                    [chat_requests EXCEPT
                        ![q].pc = "answered",
                        ![q].response = ChatEndpoint(chat_requests[q].body, outcome)]
       \/ /\ app_module # "serving"
          /\ chat_requests' = [chat_requests EXCEPT ![q].pc = "unanswered"]
    /\ UNCHANGED app_module
    /\ UNCHANGED << chat_vars, singleton_vars, session_vars, database_vars >>

EndpointNext ==
    \/ ImportApp
    \/ \E q \in HttpRequests : PostChat(q)

EndpointSpec == EndpointInit /\ [][EndpointNext]_vars

\* the body is an object without the key messages, or with an empty list
MessagesMissingOrEmpty(body) ==
    /\ body.type = "dict"
    /\ \/ "messages" \notin DOMAIN body.items
       \/ body.items["messages"] = List(<<>>)

\* what the claim says of one response to a request with this body
ResponseAsClaimed(body, resp) ==
    /\ resp.chat_calls <= 1
    /\ MessagesMissingOrEmpty(body) => (resp.status = 400 /\ resp.chat_calls = 0)
    /\ resp.caught # "none" =>
          (resp.status = 500 /\ resp.json = Dict([error |-> Str(resp.caught)]))

\* C31 (as stated): POST /chat answers every request; a request whose messages
\* list is missing or empty is answered 400 without a call of the chat loop,
\* an exception raised while the request is handled becomes a 500 response
\* with the error's text, and the chat loop is called at most once per request.
C31_Claim_ChatEndpointAnswers ==
    \A q \in HttpRequests :
        chat_requests[q].pc # "new" =>
            /\ chat_requests[q].pc = "answered"
            /\ ResponseAsClaimed(chat_requests[q].body, chat_requests[q].response)

\* the function chat of app.py, taken alone, does what the claim says for
\* every body and every outcome of llm.chat
ChatFunctionAsClaimed ==
    \A b \in RequestBodies :
        \A outcome \in LlmChatOutcomes(MessagesOf(b)) :
            ResponseAsClaimed(b, ChatEndpoint(b, outcome))

\* as shipped, the import of line 5 fails and no request reaches the function
NoRequestReachesChat ==
    /\ app_module # "serving"
    /\ \A q \in HttpRequests : chat_requests[q].pc \in {"new", "unanswered"}

====
